---------------------------- MODULE Spec2Model ----------------------------
(***************************************************************************)
(* Iterated batch Elo (src/src/main.rs): elo_adjustment, batch_adjustments *)
(* and the convergence driver elo_ratings.                                 *)
(*                                                                         *)
(* The program computes in f64.  The model keeps binary floating point     *)
(* with round-to-nearest-even, at a significand of Precision bits instead  *)
(* of 53 and with an unbounded exponent: a number is [m |-> m, e |-> e],   *)
(* standing for m * 2^e, with 2^(Precision-1) <= |m| < 2^Precision or      *)
(* m = 0.  Every operation of the source (+, -, *, /, powf, abs, <, >, ==) *)
(* is an operator on these numbers that rounds once, as the f64 operation  *)
(* does.  All intermediate integers stay below 2^31.                       *)
(***************************************************************************)
EXTENDS Integers, Sequences, FiniteSets

VARIABLES
    n_teams,      \* elo_ratings' n_teams / the length of the rating vector
    games,        \* the game list, a sequence of Game records
    ratings,      \* [0..n_teams-1 -> float]
    adjustments,  \* [0..n_teams-1 -> float]
    round,        \* completed iterations of `for _ in 0..LIMIT`
    result,       \* what elo_ratings returned, NoResult before it returns
    pc            \* where the computation stands

vars == <<n_teams, games, ratings, adjustments, round, result, pc>>

---------------------------------------------------------------------------
(* Floating point                                                          *)

\* Significand width of the modelled floating-point format.
Precision == 24

Abs(v) == IF v < 0 THEN -v ELSE v

Sign(v) == IF v < 0 THEN -1 ELSE 1

\* Number of bits of a natural number below 2^31, by halving the range.
BitLen2(v) == IF v >= 2 THEN 2 ELSE v

BitLen4(v) == IF v >= 4 THEN 2 + BitLen2(v \div 4) ELSE BitLen2(v)

BitLen8(v) == IF v >= 16 THEN 4 + BitLen4(v \div 16) ELSE BitLen4(v)

BitLen16(v) == IF v >= 256 THEN 8 + BitLen8(v \div 256) ELSE BitLen8(v)

BitLen(v) == IF v >= 65536 THEN 16 + BitLen16(v \div 65536) ELSE BitLen16(v)

Zero == [m |-> 0, e |-> 0]

\* A rounded significand that reached 2^Precision moves up one exponent.
Pack(sign, quo, exp) ==
    IF quo = 2^Precision
    THEN [m |-> sign * 2^(Precision - 1), e |-> exp + 1]
    ELSE [m |-> sign * quo, e |-> exp]

\* Ties to even: up when the remainder is above half, or is half and quo odd.
RoundQuot(sign, quo, rem, half, exp) ==
    Pack(sign, IF rem > half \/ (rem = half /\ quo % 2 = 1) THEN quo + 1 ELSE quo, exp)

RoundBits(sign, mag, exp, n) ==
    IF n <= Precision
    THEN [m |-> sign * mag * 2^(Precision - n), e |-> exp - (Precision - n)]
    ELSE RoundQuot(sign, mag \div 2^(n - Precision), mag % 2^(n - Precision),
                   2^(n - Precision - 1), exp + n - Precision)

\* sign * mag * 2^exp rounded to Precision bits, ties to even.  An inexact mag
\* carries its sticky bit in its lowest bit and at least Precision+2 bits.
Round(sign, mag, exp) ==
    IF mag = 0 THEN Zero ELSE RoundBits(sign, mag, exp, BitLen(mag))

\* hi with the sticky bit of a discarded remainder.
Jam(hi, inexact) == IF inexact /\ hi % 2 = 0 THEN hi + 1 ELSE hi

\* <<quotient or high word, remainder or low word>> with its sticky bit.
JamPair(p) == Jam(p[1], p[2] # 0)

\* An integer literal or a parsed integer as a float.
FromInt(i) == Round(Sign(i), Abs(i), 0)

FNeg(x) == [m |-> -x.m, e |-> x.e]

FAbs(x) == [m |-> Abs(x.m), e |-> x.e]

RoundSigned(S, exp) == Round(Sign(S), Abs(S), exp)

\* mag / 2^d with its sticky bit; beyond the guard bits only the sticky bit.
Shifted(mag, d) ==
    IF d >= Precision + 4 THEN 1 ELSE Jam(mag \div 2^d, (mag % 2^d) # 0)

\* big.e >= small.e = big.e - d; three guard bits.
AddAligned(big, small, d) ==
    RoundSigned(big.m * 8 + Sign(small.m) * Shifted(Abs(small.m) * 8, d), big.e - 3)

\* x + y
FAdd(x, y) ==
    IF x.m = 0 THEN y
    ELSE IF y.m = 0 THEN x
    ELSE IF x.e >= y.e THEN AddAligned(x, y, x.e - y.e)
    ELSE AddAligned(y, x, y.e - x.e)

\* x - y
FSub(x, y) == FAdd(x, FNeg(y))

Mul62Carry(hi, mid, lo) ==
    <<hi + (mid \div 32768), (mid % 32768) * 32768 + lo>>

Mul62Limbs(a1, a0, b1, b0) ==
    Mul62Carry(a1 * b1, a1 * b0 + a0 * b1 + ((a0 * b0) \div 32768), (a0 * b0) % 32768)

\* The product of two naturals below 2^30 as <<hi, lo>>: a * b = hi * 2^30 + lo.
Mul62(a, b) == Mul62Limbs(a \div 32768, a % 32768, b \div 32768, b % 32768)

\* x * y
FMul(x, y) ==
    IF x.m = 0 \/ y.m = 0 THEN Zero
    ELSE Round(Sign(x.m) * Sign(y.m),
               JamPair(Mul62(Abs(x.m) * 2^(29 - Precision), Abs(y.m) * 2^(29 - Precision))),
               x.e + y.e - 2 * (29 - Precision) + 30)

\* Long division, four quotient bits a step: <<quotient, remainder>> of
\* (quo * b + rem) * 16^steps by b.
RECURSIVE DivDigits(_, _, _, _)
DivDigits(quo, rem, b, steps) ==
    IF steps = 0 THEN <<quo, rem>>
    ELSE DivDigits(quo * 16 + ((rem * 16) \div b), (rem * 16) % b, b, steps - 1)

\* x / y, y nonzero: 28 quotient bits below the leading one.
FDiv(x, y) ==
    IF x.m = 0 THEN Zero
    ELSE Round(Sign(x.m) * Sign(y.m),
               JamPair(DivDigits(Abs(x.m) \div Abs(y.m), Abs(x.m) % Abs(y.m), Abs(y.m), 7)),
               x.e - y.e - 28)

\* x > y
FGt(x, y) == FSub(x, y).m > 0

\* x < y
FLt(x, y) == FSub(x, y).m < 0

\* 10^(2^-i) for i = 1..16 in units of 2^-28, the first one halved so that
\* every entry is in [1, 2).
Roots == <<424433723, 477353244, 357964434, 309984429, 288462842, 278269033,
           273308022, 270860782, 269645392, 269039744, 268737430, 268586401,
           268510918, 268473184, 268454319, 268444888>>

Q28(p) == p[1] * 4 + (p[2] \div 2^28)

\* a * b / 2^28 for a, b in units of 2^-28.
MulQ28(a, b) == Q28(Mul62(a, b))

\* Multiplies u (in [1, 2), units of 2^-28) by 10^(2^-i) for every bit i of
\* top (16 bits, bit 1 the highest) that is set, keeping u in [1, 2):
\* <<u, binary exponent>>.
RECURSIVE Pow10Bits(_, _, _, _)
RECURSIVE Pow10Norm(_, _, _, _)
Pow10Bits(top, i, u, ex) ==
    IF i > 16 THEN <<u, ex>>
    ELSE IF (top \div 2^(16 - i)) % 2 = 0 THEN Pow10Bits(top, i + 1, u, ex)
    ELSE Pow10Norm(top, i, MulQ28(u, Roots[i]), IF i = 1 THEN ex + 1 ELSE ex)

Pow10Norm(top, i, v, ex) ==
    IF v >= 2^29 THEN Pow10Bits(top, i + 1, v \div 2, ex + 1)
    ELSE Pow10Bits(top, i + 1, v, ex)

\* ue = <<u, exponent>> times 5^k * 2^k, 5^k scaled by 2^sc to 29 bits.
Pow10Pack(ue, k, sc) ==
    Round(1, JamPair(Mul62(ue[1] * 2, 5^k * 2^sc)), ue[2] + k - 29 - sc + 30)

\* 10^(xf / 2^26): the integer part xf \div 2^26, the top 16 bits of the
\* fraction by Pow10Bits, the low 10 bits t by 1 + t * ln 10.
Pow10Fixed(xf) ==
    Pow10Pack(Pow10Bits((xf % 2^26) \div 1024, 1,
                        2^28 + (((xf % 1024) * 75451) \div 8192), 0),
              xf \div 2^26, 29 - BitLen(5^(xf \div 2^26)))

\* 10.0f64.powf(x) for 0 <= x < 32, within one unit in the last place.
Pow10(x) ==
    Pow10Fixed(IF x.e + 26 >= 0 THEN x.m * 2^(x.e + 26) ELSE x.m \div 2^(-(x.e + 26)))

---------------------------------------------------------------------------
(* Pairwise adjustment                                                     *)

K == 10

\* The outcome of a call that may panic.
Panic == [panicked |-> TRUE, value |-> Zero]

Return(v) == [panicked |-> FALSE, value |-> v]

TeamResult(rating, points) == [rating |-> rating, points |-> points]

\* let q = |rating| 10.0f64.powf(rating / 400.0)
q(rating) == Pow10(FDiv(rating, FromInt(400)))

\* q(team.rating) / (q(team.rating) + q(opponent.rating))
expected(q_team, q_opponent) == FDiv(q_team, FAdd(q_team, q_opponent))

\* actual taking the points themselves for the score.
actual_raw(team, opponent) == team.points

\* team.points / (team.points + opponent.points)
actual(team, opponent) == FDiv(team.points, FAdd(team.points, opponent.points))

\* elo_adjustment with K * actual - expected for K * (actual - expected).
elo_adjustment_unscaled(team, opponent) ==
    IF FLt(team.points, Zero) \/ FLt(opponent.points, Zero) THEN Panic
    ELSE IF team.points = Zero /\ opponent.points = Zero THEN Return(Zero)
    ELSE Return(FSub(FMul(FromInt(K), actual(team, opponent)),
                     expected(q(team.rating), q(opponent.rating))))

\* elo_adjustment taking negative points for none instead of panicking.
elo_adjustment_clamp(team, opponent) ==
    IF ~FGt(team.points, Zero) /\ ~FGt(opponent.points, Zero) THEN Return(Zero)
    ELSE Return(FMul(FromInt(K),
                     FSub(IF FLt(team.points, Zero) THEN Zero
                          ELSE IF FLt(opponent.points, Zero) THEN FromInt(1)
                          ELSE actual(team, opponent),
                          expected(q(team.rating), q(opponent.rating)))))

\* elo_adjustment scoring a game without points as a draw.
elo_adjustment_draw(team, opponent) ==
    IF FLt(team.points, Zero) \/ FLt(opponent.points, Zero) THEN Panic
    ELSE Return(FMul(FromInt(K),
                     FSub(IF team.points = Zero /\ opponent.points = Zero
                          THEN FDiv(FromInt(1), FromInt(2))
                          ELSE actual(team, opponent),
                          expected(q(team.rating), q(opponent.rating)))))

elo_adjustment(team, opponent) ==
    IF FLt(team.points, Zero) \/ FLt(opponent.points, Zero) THEN Panic
    ELSE IF team.points = Zero /\ opponent.points = Zero THEN Return(Zero)
    ELSE Return(FMul(FromInt(K),
                     FSub(actual(team, opponent),
                          expected(q(team.rating), q(opponent.rating)))))

---------------------------------------------------------------------------
(* Batch aggregation                                                       *)

Game(index_a, index_b, points_a, points_b) ==
    [index_a |-> index_a, index_b |-> index_b,
     points_a |-> points_a, points_b |-> points_b]

\* `for game in games` from the i-th game on, adjustments being adj so far:
\* BatchLoop builds a and b, BatchGame calls elo_adjustment both ways,
\* BatchAdd adds the two results to the slots of index_a and index_b.
RECURSIVE BatchLoop(_, _, _, _)
RECURSIVE BatchGame(_, _, _, _, _, _)
RECURSIVE BatchAdd(_, _, _, _, _, _)
\* BatchGame reading ratings the earlier games of the round have moved.
BatchGame_sequential(rs, gs, i, adj, a, b) ==
    BatchAdd(rs, gs, i, adj,
             elo_adjustment(TeamResult(FAdd(a.rating, adj[gs[i].index_a]), a.points),
                            TeamResult(FAdd(b.rating, adj[gs[i].index_b]), b.points)),
             elo_adjustment(TeamResult(FAdd(b.rating, adj[gs[i].index_b]), b.points),
                            TeamResult(FAdd(a.rating, adj[gs[i].index_a]), a.points)))

\* BatchAdd giving the b-vs-a adjustment to every slot but index_a.
BatchAdd_others(rs, gs, i, adj, ab, ba) ==
    IF ab.panicked \/ ba.panicked THEN Panic
    ELSE BatchLoop(rs, gs, i + 1,
                   [j \in DOMAIN adj |->
                       IF j = gs[i].index_a THEN FAdd(adj[j], ab.value)
                       ELSE FAdd(adj[j], ba.value)])

\* BatchAdd with `=` written for `+=`.
BatchAdd_assign(rs, gs, i, adj, ab, ba) ==
    IF ab.panicked \/ ba.panicked THEN Panic
    ELSE BatchLoop(rs, gs, i + 1,
                   [[adj EXCEPT ![gs[i].index_a] = ab.value]
                         EXCEPT ![gs[i].index_b] = ba.value])

BatchLoop(rs, gs, i, adj) ==
    IF i > Len(gs) THEN [panicked |-> FALSE, value |-> adj]
    ELSE BatchGame(rs, gs, i, adj,
                   TeamResult(rs[gs[i].index_a], gs[i].points_a),
                   TeamResult(rs[gs[i].index_b], gs[i].points_b))

BatchGame(rs, gs, i, adj, a, b) ==
    BatchAdd(rs, gs, i, adj, elo_adjustment(a, b), elo_adjustment(b, a))

BatchAdd(rs, gs, i, adj, ab, ba) ==
    IF ab.panicked \/ ba.panicked THEN Panic
    ELSE BatchLoop(rs, gs, i + 1,
                   [[adj EXCEPT ![gs[i].index_a] = FAdd(@, ab.value)]
                         EXCEPT ![gs[i].index_b] = FAdd(@, ba.value)])

batch_adjustments(rs, gs) == BatchLoop(rs, gs, 1, [i \in DOMAIN rs |-> Zero])

---------------------------------------------------------------------------
(* Convergence driver                                                      *)

EPSILON == FDiv(FromInt(1), FromInt(100))

LIMIT == 10000

InitialRating == 1500

NoResult == [kind |-> "none", rounds |-> 0, ratings |-> <<>>, adjustments |-> <<>>]

Ok(rs) == [kind |-> "Ok", rounds |-> 0, ratings |-> rs, adjustments |-> <<>>]

\* Err(ConvergenceFailure { rounds, last_ratings, last_adjustments })
ConvergenceFailure(rounds, last_ratings, last_adjustments) ==
    [kind |-> "Err", rounds |-> rounds, ratings |-> last_ratings,
     adjustments |-> last_adjustments]

\* a.abs() > EPSILON
Exceeds(a) == FGt(FAbs(a), EPSILON)

\* elo_ratings is entered with a team count and a game list whose indices
\* are below it.
Enter(n, gs) ==
    /\ n_teams = n
    /\ games = gs
    /\ ratings = [i \in 0..(n - 1) |-> FromInt(InitialRating)]
    /\ adjustments = [i \in 0..(n - 1) |-> Zero]
    /\ round = 0
    /\ result = NoResult
    /\ pc = "batch"

\* The outcome r of batch_adjustments(&ratings, games): a panic unwinds
\* elo_ratings, a vector is assigned to adjustments.
Assign(r) ==
    IF r.panicked
    THEN /\ pc' = "panicked"
         /\ UNCHANGED adjustments
    ELSE /\ pc' = "apply"
         /\ adjustments' = r.value

\* adjustments = batch_adjustments(&ratings, games)
Batch ==
    /\ pc = "batch"
    /\ round < LIMIT
    /\ Assign(batch_adjustments(ratings, games))
    /\ UNCHANGED <<n_teams, games, ratings, round, result>>

\* Apply testing before adding: Ok holds the ratings the round started with.
Apply_check_first ==
    /\ pc = "apply"
    /\ round' = round + 1
    /\ IF \A i \in DOMAIN adjustments : ~Exceeds(adjustments[i])
       THEN /\ pc' = "ok"
            /\ result' = Ok(ratings)
            /\ UNCHANGED ratings
       ELSE /\ pc' = "batch"
            /\ ratings' = [i \in DOMAIN ratings |-> FAdd(ratings[i], adjustments[i])]
            /\ UNCHANGED result
    /\ UNCHANGED <<n_teams, games, adjustments>>

\* Apply with `converged` set to true once, before the loop over the rounds:
\* after a round that did not converge it stays false.
Apply_hoisted ==
    /\ pc = "apply"
    /\ ratings' = [i \in DOMAIN ratings |-> FAdd(ratings[i], adjustments[i])]
    /\ round' = round + 1
    /\ IF round = 0 /\ \A i \in DOMAIN adjustments : ~Exceeds(adjustments[i])
       THEN /\ pc' = "ok"
            /\ result' = Ok(ratings')
       ELSE /\ pc' = "batch"
            /\ UNCHANGED result
    /\ UNCHANGED <<n_teams, games, adjustments>>

\* The loop over the adjustments and the test of converged.
Apply ==
    /\ pc = "apply"
    /\ ratings' = [i \in DOMAIN ratings |-> FAdd(ratings[i], adjustments[i])]
    /\ round' = round + 1
    /\ IF \A i \in DOMAIN adjustments : ~Exceeds(adjustments[i])
       THEN /\ pc' = "ok"
            /\ result' = Ok(ratings')
       ELSE /\ pc' = "batch"
            /\ UNCHANGED result
    /\ UNCHANGED <<n_teams, games, adjustments>>

\* Fail one round early.
Fail_early ==
    /\ pc = "batch"
    /\ round = LIMIT - 1
    /\ pc' = "failed"
    /\ result' = ConvergenceFailure(LIMIT, ratings, adjustments)
    /\ UNCHANGED <<n_teams, games, ratings, adjustments, round>>

\* The loop ran LIMIT times without converging.
Fail ==
    /\ pc = "batch"
    /\ round = LIMIT
    /\ pc' = "failed"
    /\ result' = ConvergenceFailure(LIMIT, ratings, adjustments)
    /\ UNCHANGED <<n_teams, games, ratings, adjustments, round>>

\* What parsing a game line yields: indices of teams, points read as numbers.
G(index_a, index_b, points_a, points_b) ==
    Game(index_a, index_b, FromInt(points_a), FromInt(points_b))

\* Point pairs of a single explored game: every pair over -1..2 except the
\* shut-outs (one side positive, the other zero), whose runs take thousands
\* of rounds; two of those are among LongRuns.
SinglePoints ==
    {pp \in (-1..2) \X (-1..2) :
        ~((pp[1] > 0 /\ pp[2] = 0) \/ (pp[1] = 0 /\ pp[2] > 0))}

\* Three teams and one game between any two of them (or a team and itself).
SingleGameRuns ==
    {<<3, <<G(ab[1], ab[2], pp[1], pp[2])>>>> :
        ab \in (0..2) \X (0..2), pp \in SinglePoints}

\* No game at all, for no team and for some.
EmptyRuns == {<<n, <<>>>> : n \in 0..3}

\* A single won game between two teams, and one team winning against two
\* others beside a team without a game: the runs that take thousands of
\* rounds.
LongRuns ==
    {<<2, <<G(0, 1, 1, 0)>>>>,
     <<4, <<G(0, 1, 1, 0), G(0, 2, 1, 0)>>>>}

\* Several games: a pair meeting twice, a chain, a game without outcome
\* beside a real one, a negative score behind a valid game.
MultiGameRuns ==
    {<<2, <<G(0, 1, 2, 1), G(0, 1, 2, 1)>>>>,
     <<2, <<G(0, 1, 2, 1), G(1, 0, 2, 1)>>>>,
     <<3, <<G(0, 1, 2, 1), G(1, 2, 2, 1)>>>>,
     <<3, <<G(1, 2, 2, 1), G(0, 1, 0, 0)>>>>,
     <<3, <<G(0, 1, 0, 0), G(1, 2, 0, 0)>>>>,
     <<3, <<G(0, 1, 2, 1), G(1, 2, 2, -1)>>>>,
     <<3, <<G(0, 1, 1, 1), G(1, 2, -1, 0)>>>>,
     <<3, <<G(0, 1, 0, -1), G(1, 2, 1, 1)>>>>}

Scenarios == EmptyRuns \cup SingleGameRuns \cup LongRuns \cup MultiGameRuns

Init == \E sc \in Scenarios : Enter(sc[1], sc[2])

Next == Batch \/ Apply \/ Fail

Spec == Init /\ [][Next]_vars

---------------------------------------------------------------------------
(* batch_adjustments called on its own, on any rating vector               *)

MaxGames == 2

\* A rating vector from its entries, indexed from 0 as a Vec is.
Vec(t) == [i \in 0..(Len(t) - 1) |-> t[i + 1]]

\* Equal ratings, ratings far apart, and ratings that are no integers
\* (1505.5, 1494.625, 1500.03125).
RatingVectors ==
    {Vec(<<FromInt(1500), FromInt(1500), FromInt(1500)>>),
     Vec(<<FromInt(1400), FromInt(1500), FromInt(1700)>>),
     Vec(<<Round(1, 3011, -1), Round(1, 11957, -3), Round(1, 48001, -5)>>)}

IndexPairs == {<<0, 1>>, <<1, 0>>, <<1, 2>>, <<0, 0>>}

PointPairs == {<<0, 0>>, <<1, 0>>, <<1, 2>>, <<-1, 0>>, <<0, -1>>}

BatchGames ==
    {G(ab[1], ab[2], pp[1], pp[2]) : ab \in IndexPairs, pp \in PointPairs}

GameLists == UNION {[1..k -> BatchGames] : k \in 0..MaxGames}

BatchInit ==
    \E rs \in RatingVectors, gs \in GameLists :
        /\ n_teams = Cardinality(DOMAIN rs)
        /\ games = gs
        /\ ratings = rs
        /\ adjustments = [i \in DOMAIN rs |-> Zero]
        /\ round = 0
        /\ result = NoResult
        /\ pc = "call"

\* The caller of batch_adjustments gets the vector, or the panic unwinds.
Returned(r) ==
    IF r.panicked
    THEN /\ pc' = "unwound"
         /\ UNCHANGED adjustments
    ELSE /\ pc' = "returned"
         /\ adjustments' = r.value

Call ==
    /\ pc = "call"
    /\ Returned(batch_adjustments(ratings, games))
    /\ UNCHANGED <<n_teams, games, ratings, round, result>>

SpecBatch == BatchInit /\ [][Call]_vars

---------------------------------------------------------------------------
(* Properties of batch_adjustments and elo_adjustment, under SpecBatch     *)

\* What game g adds for its index_a and for its index_b, from ratings rs.
SideA(rs, g) ==
    elo_adjustment(TeamResult(rs[g.index_a], g.points_a),
                   TeamResult(rs[g.index_b], g.points_b)).value

SideB(rs, g) ==
    elo_adjustment(TeamResult(rs[g.index_b], g.points_b),
                   TeamResult(rs[g.index_a], g.points_a)).value

\* What the games from the k-th on add to slot i, in the order they add it.
RECURSIVE Contributions(_, _, _, _)
Contributions(rs, gs, k, i) ==
    IF k > Len(gs) THEN <<>>
    ELSE (IF gs[k].index_a = i THEN <<SideA(rs, gs[k])>> ELSE <<>>)
         \o (IF gs[k].index_b = i THEN <<SideB(rs, gs[k])>> ELSE <<>>)
         \o Contributions(rs, gs, k + 1, i)

\* acc + t[j] + t[j+1] + ..., added from the left.
RECURSIVE SumFrom(_, _, _)
SumFrom(acc, t, j) ==
    IF j > Len(t) THEN acc ELSE SumFrom(FAdd(acc, t[j]), t, j + 1)

Vacuous(g) == g.points_a = Zero /\ g.points_b = Zero

NotVacuous(g) == ~Vacuous(g)

\* C6: batch_adjustments returns a vector as long as the ratings whose slot i
\* is the sum, over every game of the list, of the a-vs-b adjustment of the
\* games with index_a = i and the b-vs-a adjustment of those with
\* index_b = i, each game of a repeated pair counted on its own.
BatchIsSumOfGames ==
    pc = "returned" =>
        /\ DOMAIN adjustments = DOMAIN ratings
        /\ \A i \in DOMAIN ratings :
              adjustments[i] = SumFrom(Zero, Contributions(ratings, games, 1, i), 1)

\* A pair met twice, each game adding something to its slots.
BatchIsSumOfGames_witness ==
    /\ pc = "returned"
    /\ Len(games) = 2
    /\ games[1] = games[2]
    /\ games[1].index_a # games[1].index_b
    /\ adjustments[games[1].index_a] # Zero
    /\ adjustments[games[1].index_a] # SideA(ratings, games[1])

\* C7 as stated: for any ratings and nonnegative points the a-vs-b adjustment
\* is exactly the negative of the b-vs-a adjustment.
AntisymmetryExact ==
    pc = "returned" =>
        \A k \in 1..Len(games) :
            SideA(ratings, games[k]) = FNeg(SideB(ratings, games[k]))

\* 2^(6 - Precision): what the roundings of the two divisions, of the sum of
\* the q, of the subtraction and of the product by K can add up to.
RoundingSlack == Round(1, 1, 6 - Precision)

\* C7 amended: the two adjustments of a game are opposite up to rounding,
\* their sum is at most 2^(6 - Precision) in absolute value.
AntisymmetryWithinRounding ==
    pc = "returned" =>
        \A k \in 1..Len(games) :
            ~FGt(FAbs(FAdd(SideA(ratings, games[k]), SideB(ratings, games[k]))),
                 RoundingSlack)

\* A game with points on both sides whose two adjustments are not opposite.
AntisymmetryWithinRounding_witness ==
    /\ pc = "returned"
    /\ \E k \in 1..Len(games) :
          /\ games[k].points_a # Zero
          /\ games[k].points_b # Zero
          /\ SideA(ratings, games[k]) # FNeg(SideB(ratings, games[k]))

\* C8: a game with no points on either side yields the adjustment 0 for
\* both sides whatever the ratings, and the vector batch_adjustments returns
\* is the one it returns without such games.
VacuousGameIsNoOp ==
    /\ \A k \in 1..Len(games) :
          Vacuous(games[k]) =>
              /\ SideA(ratings, games[k]) = Zero
              /\ SideB(ratings, games[k]) = Zero
    /\ pc = "returned" =>
          adjustments = batch_adjustments(ratings, SelectSeq(games, NotVacuous)).value

\* A game without points between two teams of different ratings, beside a
\* game that counts.
VacuousGameIsNoOp_witness ==
    /\ pc = "returned"
    /\ \E k \in 1..Len(games) :
          /\ Vacuous(games[k])
          /\ ratings[games[k].index_a] # ratings[games[k].index_b]
    /\ \E k \in 1..Len(games) : ~Vacuous(games[k])

---------------------------------------------------------------------------
(* Properties of elo_ratings, under Spec                                   *)

Within(adj) == \A i \in DOMAIN adj : ~Exceeds(adj[i])

HasNegative(gs) ==
    \E k \in 1..Len(gs) : gs[k].points_a.m < 0 \/ gs[k].points_b.m < 0

Plays(i, gs) == \E k \in 1..Len(gs) : gs[k].index_a = i \/ gs[k].index_b = i

Added(rs, adj) == [i \in DOMAIN rs |-> FAdd(rs[i], adj[i])]

\* C1: when elo_ratings returns Ok(ratings), every returned rating is the
\* rating at the start of that round plus the round's adjustment, the
\* adjustments that passed the epsilon test being already added.
ApplyThenCheck ==
    [][pc' = "ok" =>
          /\ pc = "apply"
          /\ result'.kind = "Ok"
          /\ DOMAIN result'.ratings = 0..(n_teams - 1)
          /\ \A i \in 0..(n_teams - 1) :
                result'.ratings[i] = FAdd(ratings[i], adjustments[i])
          /\ result'.ratings = ratings'
          /\ adjustments' = adjustments
          /\ Within(adjustments)]_vars

\* Returned after more than one round, the last one moving a rating.
ApplyThenCheck_witness ==
    /\ pc = "ok"
    /\ round > 1
    /\ \E i \in DOMAIN adjustments :
          /\ adjustments[i] # Zero
          /\ result.ratings[i] # FromInt(InitialRating)

\* C2: Err(ConvergenceFailure) is returned exactly when none of the rounds
\* 1..10000 had all adjustments within 0.01; then rounds is 10000,
\* last_adjustments is the vector of the 10000th round, with an entry above
\* 0.01 in absolute value, and last_ratings the ratings with that vector
\* added.
FailureReport ==
    [][/\ result'.kind = "Err" <=> pc' = "failed"
       /\ pc' = "failed" =>
             /\ pc = "batch"
             /\ round = 10000
             /\ result' = [kind |-> "Err", rounds |-> 10000,
                           ratings |-> ratings, adjustments |-> adjustments]
             /\ ~Within(adjustments)
             /\ UNCHANGED <<ratings, adjustments, round>>
       /\ (pc = "batch" /\ round = 10000) => pc' = "failed"
       /\ (pc = "batch" /\ round = 9999 /\ pc' = "apply") =>
             adjustments' = batch_adjustments(ratings, games).value
       /\ (pc = "apply" /\ round = 9999) =>
             /\ round' = 10000
             /\ adjustments' = adjustments
             /\ ratings' = Added(ratings, adjustments)
             /\ pc' = "batch" <=> ~Within(adjustments)
       /\ (pc = "apply" /\ Within(adjustments)) => pc' = "ok"]_vars

FailureReport_witness ==
    /\ pc = "failed"
    /\ result.kind = "Err"
    /\ result.rounds = 10000
    /\ \E i \in DOMAIN result.adjustments : Exceeds(result.adjustments[i])

\* C3: within a round every game's two adjustments are computed from the
\* ratings the round started with; computing them leaves the ratings as they
\* are, and only then is every adjustment added, also at the indices behind
\* one that failed the epsilon test.
SimultaneousUpdate ==
    [][/\ (pc = "batch" /\ pc' = "apply") =>
             /\ ratings' = ratings
             /\ \A i \in DOMAIN ratings :
                   adjustments'[i] = SumFrom(Zero, Contributions(ratings, games, 1, i), 1)
       /\ pc = "apply" =>
             /\ adjustments' = adjustments
             /\ \A i \in DOMAIN ratings :
                   ratings'[i] = FAdd(ratings[i], adjustments[i])]_vars

\* After a round of two games of team 0 whose adjustment failed the test,
\* the teams behind it have moved too.
SimultaneousUpdate_witness ==
    /\ pc = "batch"
    /\ round >= 2
    /\ n_teams >= 3
    /\ Len(games) = 2
    /\ games[1].index_a = games[2].index_a
    /\ Exceeds(adjustments[0])
    /\ \A i \in {1, 2} : adjustments[i] # Zero /\ ratings[i] # FromInt(InitialRating)

\* C4: a game with negative points on either side, whatever the other
\* side's, makes elo_ratings panic in the first round; it returns neither Ok
\* nor Err.
NegativePointsAbort ==
    HasNegative(games) =>
        /\ pc \in {"batch", "panicked"}
        /\ round = 0
        /\ result = NoResult
        /\ ratings = [i \in 0..(n_teams - 1) |-> FromInt(InitialRating)]

\* Panicked on a negative score against zero points, behind a valid game.
NegativePointsAbort_witness ==
    /\ pc = "panicked"
    /\ Len(games) = 2
    /\ ~HasNegative(<<games[1]>>)
    /\ games[2].points_a.m < 0
    /\ games[2].points_b = Zero

\* C5: a competitor that appears in no game has the adjustment 0 in every
\* round and the rating 1500.0 after every round, in the Ok vector and in
\* the failure report.
ZeroGameIdempotence ==
    \A i \in 0..(n_teams - 1) :
        ~Plays(i, games) =>
            /\ adjustments[i] = Zero
            /\ ratings[i] = FromInt(1500)
            /\ result.kind = "Ok" => result.ratings[i] = FromInt(1500)
            /\ result.kind = "Err" =>
                  /\ result.ratings[i] = FromInt(1500)
                  /\ result.adjustments[i] = Zero

\* A failure report with a competitor that played no game beside ones whose
\* ratings moved.
ZeroGameIdempotence_witness ==
    /\ pc = "failed"
    /\ \E i \in 0..(n_teams - 1) : ~Plays(i, games)
    /\ \E i \in 0..(n_teams - 1) : result.ratings[i] # FromInt(1500)

TwoTeamsOneWin == n_teams = 2 /\ games = <<G(0, 1, 1, 0)>>

\* C9: two competitors and the single game (a, b, 1.0, 0.0): round 1
\* computes +5.0 and -5.0, the ratings become 1505.0 and 1495.0, and the
\* driver ends Converged, within the limit, with rating a > 1500 > rating b.
ConcreteScenario ==
    TwoTeamsOneWin =>
        /\ (pc = "apply" /\ round = 0) =>
              adjustments = Vec(<<FromInt(5), FromInt(-5)>>)
        /\ (pc = "batch" /\ round = 1) =>
              ratings = Vec(<<FromInt(1505), FromInt(1495)>>)
        /\ pc \in {"batch", "apply", "ok"}
        /\ pc \in {"batch", "apply"} => round < LIMIT
        /\ pc = "ok" =>
              /\ round <= LIMIT
              /\ result.kind = "Ok"
              /\ FGt(result.ratings[0], FromInt(1500))
              /\ FGt(FromInt(1500), result.ratings[1])

ConcreteScenario_witness ==
    /\ TwoTeamsOneWin
    /\ pc = "ok"
    /\ round > 1
    /\ FGt(result.ratings[0], FromInt(1505))

\* C10: on valid input elo_ratings runs at most 10000 rounds and ends
\* Converged or Failed, never both; it returns Converged at the first round
\* whose adjustments are all within 0.01, 0.01 itself included, and runs no
\* round after it; without games it converges in round 1, all ratings 1500.0.
\* Every step is taken by a running driver and either starts a round's
\* apply loop, or counts a round, or ends the run.
BoundedTermination ==
    /\ [](~HasNegative(games) =>
            /\ round <= LIMIT
            /\ pc \in {"batch", "apply", "ok", "failed"}
            /\ pc = "apply" => round < LIMIT
            /\ pc = "ok" <=> result.kind = "Ok"
            /\ pc = "failed" <=> result.kind = "Err"
            /\ pc = "ok" => Within(adjustments)
            /\ (pc = "batch" /\ round >= 1) => ~Within(adjustments)
            /\ (pc = "ok" /\ games = <<>>) =>
                  /\ round = 1
                  /\ result.ratings = [i \in 0..(n_teams - 1) |-> FromInt(1500)]
            /\ ~Exceeds(EPSILON))
    /\ [][~HasNegative(games) =>
            /\ pc \in {"batch", "apply"}
            /\ pc = "batch" =>
                  /\ round' = round
                  /\ pc' = IF round = LIMIT THEN "failed" ELSE "apply"
            /\ pc = "apply" =>
                  /\ round' = round + 1
                  /\ pc' = IF Within(adjustments) THEN "ok" ELSE "batch"]_vars

\* Converged, but not in the first round.
BoundedTermination_witness ==
    /\ pc = "ok"
    /\ round > 1
    /\ ~HasNegative(games)
    /\ games # <<>>

============================================================================
